---- MODULE Spec2Model ----
(***************************************************************************)
(* Model of grafanaclient (src/api.go): the template converter             *)
(* ConvertTemplate, the decoders and the JSON encoder it is used with, and  *)
(* the default-value constructors.                                         *)
(*                                                                         *)
(* A template file is a status (present, missing, unreadable), a format    *)
(* (toml, json, or text that is neither) and a document.  A document is    *)
(* the parsed text: every scalar key is optional, <<>> when the key is     *)
(* absent from the text and <<v>> when the text sets it to v.  Go values   *)
(* (Dashboard, Row, Panel, Target, ...) are records whose fields carry     *)
(* the names of the Go struct fields.  A nil slice and an empty slice are  *)
(* both <<>>.                                                              *)
(*                                                                         *)
(* Fields modelled: Dashboard.{Editable, ID, GTime, Templating.List,       *)
(* Rows}; Row.{Editable, Height, Panels}; Panel.{Editable, Span, Type,     *)
(* Fill, Legend.Show, NullPointMode, Targets, Metrics}; Target.{Alias,     *)
(* Measurement, GroupBy, Tags, DsType}; Template.{Name, Type, Refresh,     *)
(* AllFormat, MultiFormat}.  The other fields are plain data that the      *)
(* decoders copy and ConvertTemplate never reads or writes.                *)
(*                                                                         *)
(* The second part is the Session: NewSession, httpRequest and the         *)
(* operations built on it (DoLogon, CreateDataSource, DeleteDataSource,    *)
(* GetDataSourceList, GetDataSource, GetDashboard, UploadDashboard,        *)
(* UploadDashboardString, DeleteDashboard), with the Grafana server as the *)
(* environment that answers the requests.  Spec is the converter and       *)
(* SessionSpec the Sessions.                                               *)
(*                                                                         *)
(* The third part is a Target built by hand with GroupByTag and            *)
(* FilterByTag; TargetSpec is its specification.                           *)
(***************************************************************************)
EXTENDS Integers, Sequences, FiniteSets, TLC

VARIABLES file, result, prev, sessions, jars, issued, logged, last,
          start, tgt, grouped

svars == <<sessions, jars, issued, logged, last>>

tvars == <<start, tgt, grouped>>

vars == <<file, result, prev, sessions, jars, issued, logged, last,
          start, tgt, grouped>>

(***************************************************************************)
(* Bounds of the inputs.                                                   *)
(***************************************************************************)
MaxRows == 2
MaxPanels == 2
MaxMetrics == 2

(***************************************************************************)
(* Optional keys of a document.                                            *)
(***************************************************************************)
Absent == <<>>

Get(opt, zero) == IF opt = <<>> THEN zero ELSE opt[1]

NoErr == "nil"

(***************************************************************************)
(* Go zero values.                                                         *)
(***************************************************************************)
ZeroGTime == [From |-> "", Now |-> FALSE, To |-> ""]

ZeroLegend == [Show |-> FALSE]

ZeroDashboard ==
  [Editable |-> FALSE, ID |-> 0, GTime |-> ZeroGTime,
   Templating |-> [List |-> <<>>], Rows |-> <<>>]

ZeroRow == [Editable |-> FALSE, Height |-> "", Panels |-> <<>>]

ZeroPanel ==
  [Editable |-> FALSE, Span |-> 0, Type |-> "", Fill |-> 0,
   Targets |-> <<>>, Metrics |-> <<>>, Legend |-> ZeroLegend,
   NullPointMode |-> ""]

ZeroTarget ==
  [Alias |-> "", Measurement |-> "", GroupBy |-> <<>>, Tags |-> <<>>,
   DsType |-> ""]

ZeroTemplate ==
  [AllFormat |-> "", MultiFormat |-> "", Name |-> "", Refresh |-> "",
   Type |-> ""]

(***************************************************************************)
(* Default-value constructors.                                             *)
(***************************************************************************)
NewGroupBy == << [Type |-> "time", Interval |-> "auto", Params |-> <<>>] >>

NewLegend == [ZeroLegend EXCEPT !.Show = TRUE]

\* Variant of NewRow: the default Row is not editable.
NewRowNotEditable == [ZeroRow EXCEPT !.Height = "200px"]

NewRow == [ZeroRow EXCEPT !.Height = "200px", !.Editable = TRUE]

NewPanel ==
  [ZeroPanel EXCEPT !.Span = 6, !.Type = "graph", !.Editable = TRUE,
                    !.Fill = 0, !.Legend = NewLegend,
                    !.NullPointMode = "connected"]

NewTarget ==
  [ZeroTarget EXCEPT !.Alias = "$tag_host $tag_name", !.DsType = "influxdb"]

NewGTime == [ZeroGTime EXCEPT !.From = "now-24h", !.To = "now"]

NewTemplate ==
  [ZeroTemplate EXCEPT !.Type = "query", !.Refresh = "1",
                       !.AllFormat = "regex values",
                       !.MultiFormat = "regex values"]

TagGroupBy(tag) == [Type |-> "tag", Interval |-> "", Params |-> <<tag>>]

(***************************************************************************)
(* The decoders.  A key that is absent from the text leaves the field of   *)
(* the destination as it is; the elements of a slice are decoded into      *)
(* fresh zero values.  The TOML decoder fills Panel.Metrics (toml:"metric")*)
(* and the JSON decoder never does (json:"-").  Text of the other format   *)
(* is a syntax error for either decoder, reported before it writes a field.*)
(***************************************************************************)
DecodeTarget(t) ==
  [Alias |-> Get(t.alias, ZeroTarget.Alias),
   Measurement |-> Get(t.measurement, ZeroTarget.Measurement),
   GroupBy |-> t.groupBy,
   Tags |-> t.tags,
   DsType |-> Get(t.dsType, ZeroTarget.DsType)]

\* Variant of MetricsJsonTag: the field is given a JSON name.
MetricsJsonTagNamed == "metrics"

MetricsJsonTag == "-"

DecodeMetrics(p, format) ==
  IF format = "toml" \/ MetricsJsonTag # "-" THEN p.metrics ELSE <<>>

DecodePanel(p, format) ==
  [Editable |-> Get(p.editable, ZeroPanel.Editable),
   Span |-> Get(p.span, ZeroPanel.Span),
   Type |-> Get(p.type, ZeroPanel.Type),
   Fill |-> Get(p.fill, ZeroPanel.Fill),
   Targets |-> [k \in 1..Len(p.targets) |-> DecodeTarget(p.targets[k])],
   Metrics |-> DecodeMetrics(p, format),
   Legend |-> [Show |-> Get(p.legendShow, ZeroLegend.Show)],
   NullPointMode |-> Get(p.nullPointMode, ZeroPanel.NullPointMode)]

DecodeRow(r, format) ==
  [Editable |-> Get(r.editable, ZeroRow.Editable),
   Height |-> Get(r.height, ZeroRow.Height),
   Panels |-> [j \in 1..Len(r.panels) |-> DecodePanel(r.panels[j], format)]]

DecodeTemplate(t) ==
  [AllFormat |-> Get(t.allFormat, ZeroTemplate.AllFormat),
   MultiFormat |-> Get(t.multiFormat, ZeroTemplate.MultiFormat),
   Name |-> Get(t.name, ZeroTemplate.Name),
   Refresh |-> Get(t.refresh, ZeroTemplate.Refresh),
   Type |-> Get(t.type, ZeroTemplate.Type)]

DecodeGTime(opt, old) ==
  IF opt = Absent THEN old
  ELSE [From |-> Get(opt[1].from, old.From),
        Now |-> Get(opt[1].now, old.Now),
        To |-> Get(opt[1].to, old.To)]

DecodeDashboard(doc, dashboard, format) ==
  [Editable |-> Get(doc.editable, dashboard.Editable),
   ID |-> Get(doc.id, dashboard.ID),
   GTime |-> DecodeGTime(doc.time, dashboard.GTime),
   Templating |->
     [List |-> IF doc.templates = <<>> THEN dashboard.Templating.List
               ELSE [k \in 1..Len(doc.templates) |->
                       DecodeTemplate(doc.templates[k])]],
   Rows |-> IF doc.rows = <<>> THEN dashboard.Rows
            ELSE [i \in 1..Len(doc.rows) |-> DecodeRow(doc.rows[i], format)]]

TomlUnmarshal(buf, dashboard) ==
  IF buf.format = "toml"
  THEN [err |-> NoErr, dashboard |-> DecodeDashboard(buf.doc, dashboard, "toml")]
  ELSE [err |-> "toml: syntax error", dashboard |-> dashboard]

JsonUnmarshal(buf, dashboard) ==
  IF buf.format = "json"
  THEN [err |-> NoErr, dashboard |-> DecodeDashboard(buf.doc, dashboard, "json")]
  ELSE [err |-> "json: syntax error", dashboard |-> dashboard]

(***************************************************************************)
(* mergo.Merge(dst, src): a field of dst that holds its zero value takes   *)
(* the value of the same field of src; every other field of dst is kept.   *)
(* Nested structs (Panel.Legend) are merged field by field.                *)
(***************************************************************************)
\* Variants of MergeField: the default overrides a set field; nothing is filled.
MergeFieldOverride(dst, src, zero) == IF src # zero THEN src ELSE dst

MergeFieldKeep(dst, src, zero) == dst

MergeField(dst, src, zero) == IF dst = zero /\ src # zero THEN src ELSE dst

MergeRow(row, defRow) ==
  [Editable |-> MergeField(row.Editable, defRow.Editable, ZeroRow.Editable),
   Height |-> MergeField(row.Height, defRow.Height, ZeroRow.Height),
   Panels |-> MergeField(row.Panels, defRow.Panels, ZeroRow.Panels)]

MergePanel(panel, defPanel) ==
  [Editable |-> MergeField(panel.Editable, defPanel.Editable, ZeroPanel.Editable),
   Span |-> MergeField(panel.Span, defPanel.Span, ZeroPanel.Span),
   Type |-> MergeField(panel.Type, defPanel.Type, ZeroPanel.Type),
   Fill |-> MergeField(panel.Fill, defPanel.Fill, ZeroPanel.Fill),
   Targets |-> MergeField(panel.Targets, defPanel.Targets, ZeroPanel.Targets),
   Metrics |-> MergeField(panel.Metrics, defPanel.Metrics, ZeroPanel.Metrics),
   Legend |->
     [Show |-> MergeField(panel.Legend.Show, defPanel.Legend.Show, ZeroLegend.Show)],
   NullPointMode |->
     MergeField(panel.NullPointMode, defPanel.NullPointMode, ZeroPanel.NullPointMode)]

MergeTemplate(template, defTemplate) ==
  [AllFormat |->
     MergeField(template.AllFormat, defTemplate.AllFormat, ZeroTemplate.AllFormat),
   MultiFormat |->
     MergeField(template.MultiFormat, defTemplate.MultiFormat, ZeroTemplate.MultiFormat),
   Name |-> MergeField(template.Name, defTemplate.Name, ZeroTemplate.Name),
   Refresh |-> MergeField(template.Refresh, defTemplate.Refresh, ZeroTemplate.Refresh),
   Type |-> MergeField(template.Type, defTemplate.Type, ZeroTemplate.Type)]

(***************************************************************************)
(* strings.Join                                                            *)
(***************************************************************************)
RECURSIVE Join(_, _)
Join(elems, sep) ==
  IF elems = <<>> THEN ""
  ELSE IF Len(elems) = 1 THEN elems[1]
  ELSE elems[1] \o sep \o Join(Tail(elems), sep)

(***************************************************************************)
(* The Target that ConvertTemplate builds from one Metric entry.           *)
(***************************************************************************)
\* Variant of MetricTarget: the group-by starts empty, not from NewGroupBy.
MetricTargetNoTime(metric) ==
  [NewTarget EXCEPT
     !.Measurement = metric.Measurement,
     !.Tags = << [Condition |-> "", Key |-> "host",
                  Value |-> "/" \o Join(metric.Hosts, "|") \o "/"],
                 [Condition |-> "AND", Key |-> "name",
                  Value |-> "/" \o Join(metric.Fields, "|") \o "/"] >>,
     !.GroupBy = <<TagGroupBy("name"), TagGroupBy("host")>>]

\* Variant of MetricTarget: the host tag is built from the fields and the
\* name tag from the hosts.
MetricTargetFieldsFirst(metric) ==
  [NewTarget EXCEPT
     !.Measurement = metric.Measurement,
     !.Tags = << [Condition |-> "", Key |-> "host",
                  Value |-> "/" \o Join(metric.Fields, "|") \o "/"],
                 [Condition |-> "AND", Key |-> "name",
                  Value |-> "/" \o Join(metric.Hosts, "|") \o "/"] >>,
     !.GroupBy = (NewGroupBy \o <<TagGroupBy("name")>>) \o <<TagGroupBy("host")>>]

MetricTarget(metric) ==
  LET target == NewTarget
      fields == Join(metric.Fields, "|")
      hosts == Join(metric.Hosts, "|")
      hostTag == [Condition |-> "", Key |-> "host", Value |-> "/" \o hosts \o "/"]
      fieldsTag == [Condition |-> "AND", Key |-> "name",
                    Value |-> "/" \o fields \o "/"]
  IN [target EXCEPT
        !.Measurement = metric.Measurement,
        !.Tags = (target.Tags \o <<hostTag>>) \o <<fieldsTag>>,
        !.GroupBy = (NewGroupBy \o <<TagGroupBy("name")>>) \o <<TagGroupBy("host")>>]

\* Variant of ExpandMetrics: the Metrics are emptied once expanded.
ExpandMetricsAndClear(panel) ==
  [panel EXCEPT
     !.Targets = panel.Targets \o
                   [k \in 1..Len(panel.Metrics) |-> MetricTarget(panel.Metrics[k])],
     !.Metrics = <<>>]

\* Variant of ExpandMetrics: the synthesized Targets are put first.
ExpandMetricsInFront(panel) ==
  [panel EXCEPT
     !.Targets = [k \in 1..Len(panel.Metrics) |-> MetricTarget(panel.Metrics[k])]
                   \o panel.Targets]

ExpandMetrics(panel) ==
  [panel EXCEPT
     !.Targets = panel.Targets \o
                   [k \in 1..Len(panel.Metrics) |-> MetricTarget(panel.Metrics[k])]]

\* Variant of DefaultGTime: only From is looked at.
TimeDefaultIfNoFrom(gtime) == IF gtime.From = "" THEN NewGTime ELSE gtime

DefaultGTime(gtime) == IF gtime = ZeroGTime THEN NewGTime ELSE gtime

(***************************************************************************)
(* What a call of ConvertTemplate ends with: a return of (dashboard, err)  *)
(* or a panic.  NoResult: no call has ended yet.                           *)
(***************************************************************************)
NoResult ==
  [outcome |-> "none", dashboard |-> ZeroDashboard, err |-> NoErr, panic |-> ""]

Return(dashboard, err) ==
  [outcome |-> "returned", dashboard |-> dashboard, err |-> err, panic |-> ""]

Panic(value) ==
  [outcome |-> "panic", dashboard |-> ZeroDashboard, err |-> NoErr, panic |-> value]

OsOpen(f) == IF f.status = "missing" THEN "open: no such file or directory" ELSE NoErr

ReadAll(f) == IF f.status = "unreadable" THEN "read: input/output error" ELSE NoErr

\* Variant of IOFailure: the error is returned, not raised.
IOFailureReturned(err) == Return(ZeroDashboard, err)

IOFailure(err) == Panic(err)

ParseError(tomlErr, jsonErr) ==
  "Unable to parse template: TOML error: " \o tomlErr \o " JSON error: " \o jsonErr

(***************************************************************************)
(* Both decoders failed.  The message printed first is err.Error(), where  *)
(* err is the function's result variable, last assigned by ioutil.ReadAll: *)
(* calling a method of a nil error is a nil pointer dereference.           *)
(***************************************************************************)
BothFailed(err, tomlErr, jsonErr, dashboard) ==
  IF err = NoErr
  THEN Panic("runtime error: invalid memory address or nil pointer dereference")
  ELSE Return(dashboard, ParseError(tomlErr, jsonErr))

\* Variant of RetryJson: the Dashboard is reset before the JSON attempt.
RetryJsonAfterReset(buf, dashboard) == JsonUnmarshal(buf, ZeroDashboard)

RetryJson(buf, dashboard) == JsonUnmarshal(buf, dashboard)

\* Variant of PresetDashboard: nothing is preset before the decoders run.
PresetNothing == ZeroDashboard

\* dashboard.Editable = true, set before the first decoder runs.
PresetDashboard == [ZeroDashboard EXCEPT !.Editable = TRUE]

\* Variant of CleanupID: the ID of the JSON document is kept.
CleanupIDKept(dashboard) == dashboard

\* dashboard.ID = 0, after the JSON decoder accepted the text.
CleanupID(dashboard) == [dashboard EXCEPT !.ID = 0]

Complete(dashboard) ==
  LET defRow == NewRow
      defPanel == NewPanel
      defTemplate == NewTemplate
      templates == [k \in 1..Len(dashboard.Templating.List) |->
                      MergeTemplate(dashboard.Templating.List[k], defTemplate)]
      rows == [i \in 1..Len(dashboard.Rows) |->
                 LET row == MergeRow(dashboard.Rows[i], defRow)
                 IN [row EXCEPT
                       !.Panels = [j \in 1..Len(row.Panels) |->
                                     ExpandMetrics(MergePanel(row.Panels[j], defPanel))]]]
  IN [dashboard EXCEPT !.Templating.List = templates,
                       !.Rows = rows,
                       !.GTime = DefaultGTime(dashboard.GTime)]

ConvertTemplate(f) ==
  LET openErr == OsOpen(f)
      readErr == ReadAll(f)
      preset == PresetDashboard
      toml == TomlUnmarshal(f, preset)
      json == RetryJson(f, toml.dashboard)
  IN IF openErr # NoErr THEN IOFailure(openErr)
     ELSE IF readErr # NoErr THEN IOFailure(readErr)
     ELSE IF toml.err = NoErr THEN Return(Complete(toml.dashboard), readErr)
     ELSE IF json.err # NoErr
          THEN BothFailed(readErr, toml.err, json.err, json.dashboard)
     ELSE Return(Complete(CleanupID(json.dashboard)), readErr)

(***************************************************************************)
(* json.Marshal of a Dashboard, as the struct tags direct it: every field  *)
(* is written, except Panel.Metrics (json:"-") and the omitempty fields    *)
(* that hold their zero value.                                             *)
(***************************************************************************)
OmitEmpty(v, zero) == IF v = zero THEN Absent ELSE <<v>>

MarshalTarget(t) ==
  [alias |-> <<t.Alias>>, measurement |-> <<t.Measurement>>,
   groupBy |-> t.GroupBy, tags |-> t.Tags,
   dsType |-> OmitEmpty(t.DsType, ZeroTarget.DsType)]

MarshalMetrics(panel) == IF MetricsJsonTag = "-" THEN <<>> ELSE panel.Metrics

MarshalPanel(p) ==
  [editable |-> <<p.Editable>>, span |-> <<p.Span>>, type |-> <<p.Type>>,
   fill |-> <<p.Fill>>, legendShow |-> <<p.Legend.Show>>,
   nullPointMode |-> OmitEmpty(p.NullPointMode, ZeroPanel.NullPointMode),
   targets |-> [k \in 1..Len(p.Targets) |-> MarshalTarget(p.Targets[k])],
   metrics |-> MarshalMetrics(p)]

MarshalRow(r) ==
  [editable |-> <<r.Editable>>, height |-> <<r.Height>>,
   panels |-> [j \in 1..Len(r.Panels) |-> MarshalPanel(r.Panels[j])]]

MarshalTemplate(t) ==
  [allFormat |-> <<t.AllFormat>>, multiFormat |-> <<t.MultiFormat>>,
   name |-> <<t.Name>>, refresh |-> <<t.Refresh>>, type |-> <<t.Type>>]

MarshalDashboard(d) ==
  [editable |-> <<d.Editable>>, id |-> <<d.ID>>,
   time |-> << [from |-> <<d.GTime.From>>, now |-> <<d.GTime.Now>>,
                to |-> <<d.GTime.To>>] >>,
   templates |-> [k \in 1..Len(d.Templating.List) |->
                    MarshalTemplate(d.Templating.List[k])],
   rows |-> [i \in 1..Len(d.Rows) |-> MarshalRow(d.Rows[i])]]

(***************************************************************************)
(* The template files the converter is given.                              *)
(***************************************************************************)
MetricPool ==
  << [Measurement |-> "cpu", Fields |-> <<"busy">>, Hosts |-> <<"host1", "host2">>],
     [Measurement |-> "mem", Fields |-> <<"used", "free">>, Hosts |-> <<"host1">>],
     [Measurement |-> "net", Fields |-> <<>>, Hosts |-> <<>>] >>

MetricSeqs ==
  { [k \in 1..n |-> MetricPool[((s + k - 2) % Len(MetricPool)) + 1]] :
      s \in 1..Len(MetricPool), n \in 0..MaxMetrics }

LoadTarget ==
  [alias |-> Absent, measurement |-> <<"load">>, dsType |-> Absent,
   groupBy |-> <<>>, tags |-> <<>>]

DiskTarget ==
  [alias |-> <<"disk">>, measurement |-> <<"df">>, dsType |-> <<"influxdb">>,
   groupBy |-> <<TagGroupBy("host")>>,
   tags |-> << [Condition |-> "", Key |-> "host", Value |-> "web1"] >>]

TargetSeqs == { <<>>, <<DiskTarget, LoadTarget>> }

PanelSettings ==
  { [editable |-> Absent, span |-> Absent, type |-> Absent, fill |-> Absent,
     legendShow |-> Absent, nullPointMode |-> Absent],
    [editable |-> <<FALSE>>, span |-> <<0>>, type |-> <<"">>, fill |-> <<0>>,
     legendShow |-> <<FALSE>>, nullPointMode |-> <<"">>],
    [editable |-> <<TRUE>>, span |-> <<12>>, type |-> <<"text">>, fill |-> <<2>>,
     legendShow |-> <<TRUE>>, nullPointMode |-> <<"null">>],
    [editable |-> <<FALSE>>, span |-> <<12>>, type |-> Absent, fill |-> <<1>>,
     legendShow |-> Absent, nullPointMode |-> <<"null as zero">>] }

PanelDoc(s, targets, metrics) ==
  [editable |-> s.editable, span |-> s.span, type |-> s.type, fill |-> s.fill,
   legendShow |-> s.legendShow, nullPointMode |-> s.nullPointMode,
   targets |-> targets, metrics |-> metrics]

PanelDocs ==
  { PanelDoc(s, t, m) : s \in PanelSettings, t \in TargetSeqs, m \in MetricSeqs }

FillerPanel ==
  [editable |-> Absent, span |-> Absent, type |-> Absent, fill |-> Absent,
   legendShow |-> Absent, nullPointMode |-> Absent,
   targets |-> <<LoadTarget>>, metrics |-> <<MetricPool[1]>>]

PanelSeqs ==
  { <<>> } \cup
  { <<p>> \o [k \in 1..n |-> FillerPanel] : p \in PanelDocs, n \in 0..MaxPanels - 1 }

RowSettings ==
  { [editable |-> Absent, height |-> Absent],
    [editable |-> <<FALSE>>, height |-> <<"">>],
    [editable |-> <<TRUE>>, height |-> <<"100px">>] }

RowDocs ==
  { [editable |-> s.editable, height |-> s.height, panels |-> ps] :
      s \in RowSettings, ps \in PanelSeqs }

FillerRow ==
  [editable |-> <<FALSE>>, height |-> <<"350px">>, panels |-> <<FillerPanel>>]

RowSeqs ==
  { <<>> } \cup
  { <<r>> \o [k \in 1..n |-> FillerRow] : r \in RowDocs, n \in 0..MaxRows - 1 }

HostTemplate ==
  [allFormat |-> Absent, multiFormat |-> Absent, name |-> <<"host">>,
   refresh |-> Absent, type |-> Absent]

CustomTemplate ==
  [allFormat |-> <<"glob">>, multiFormat |-> Absent, name |-> <<"dc">>,
   refresh |-> <<"2">>, type |-> <<"custom">>]

TimeDoc(from, now, to) == << [from |-> from, now |-> now, to |-> to] >>

DashboardSettings ==
  { [editable |-> Absent, id |-> Absent, time |-> Absent, templates |-> <<>>],
    [editable |-> <<FALSE>>, id |-> <<7>>, time |-> Absent,
     templates |-> <<HostTemplate>>],
    [editable |-> <<TRUE>>, id |-> Absent,
     time |-> TimeDoc(Absent, <<FALSE>>, Absent), templates |-> <<>>],
    [editable |-> Absent, id |-> <<7>>,
     time |-> TimeDoc(<<"now-1h">>, Absent, Absent), templates |-> <<>>],
    [editable |-> <<FALSE>>, id |-> <<0>>,
     time |-> TimeDoc(<<"now-6h">>, <<TRUE>>, <<"now-1h">>),
     templates |-> <<CustomTemplate, HostTemplate>>],
    [editable |-> Absent, id |-> Absent,
     time |-> TimeDoc(Absent, <<TRUE>>, Absent), templates |-> <<>>],
    [editable |-> <<TRUE>>, id |-> <<7>>,
     time |-> TimeDoc(<<"">>, Absent, <<"">>), templates |-> <<>>],
    [editable |-> Absent, id |-> Absent,
     time |-> TimeDoc(Absent, Absent, <<"now-5m">>), templates |-> <<>>] }

DashboardDocs ==
  { [editable |-> s.editable, id |-> s.id, time |-> s.time,
     templates |-> s.templates, rows |-> rs] :
      s \in DashboardSettings, rs \in RowSeqs }

EmptyDoc ==
  [editable |-> Absent, id |-> Absent, time |-> Absent, templates |-> <<>>,
   rows |-> <<>>]

TemplateFiles ==
  { [status |-> "ok", format |-> fmt, doc |-> d] :
      fmt \in {"toml", "json"}, d \in DashboardDocs } \cup
  { [status |-> st, format |-> fmt, doc |-> EmptyDoc] :
      st \in {"ok", "missing", "unreadable"}, fmt \in {"neither"} } \cup
  { [status |-> st, format |-> "toml", doc |-> EmptyDoc] :
      st \in {"missing", "unreadable"} }

NoPrev == [set |-> FALSE, dashboard |-> ZeroDashboard]

(***************************************************************************)
(* The Session and its transport.  A Session is the credentials, the url   *)
(* of the server and the http client with the cookie jar that NewSession   *)
(* creates for it.  The server is the environment: every request that is   *)
(* sent gets no answer at all (the request could not be performed) or an   *)
(* answer with a status code and a body.  The statuses are those a Grafana *)
(* server answers with: 200 on success, 401, 404 and 500 on failure, the   *)
(* body of a failure being {"message": ...} or text that is not JSON.  The *)
(* server sets its session cookie in an answer that accepts a login.       *)
(***************************************************************************)
MaxDataSources == 2
MaxLogins == 2

SessionIds == {"s1", "s2"}

MalformedURLs == {":3000"}

HttpsURLs == {"https://localhost:3000"}

SessionArgs ==
  { [User |-> "admin", Password |-> "admin", url |-> "http://localhost:3000"],
    [User |-> "viewer", Password |-> "secret", url |-> "https://localhost:3000"],
    [User |-> "admin", Password |-> "admin", url |-> ":3000"] }

timeout == 5

NewSession(user, password, url) ==
  [User |-> user, Password |-> password, url |-> url,
   client |-> [Timeout |-> timeout, InsecureSkipVerify |-> url \in HttpsURLs]]

\* Variant of JarOf: one cookie jar serves every Session.
JarShared(id) == "s1"

\* The jar of a Session is the one NewSession created for it.
JarOf(id) == id

NilError == [type |-> "nil", Code |-> 0, Description |-> ""]

GrafanaError(code, description) ==
  [type |-> "GrafanaError", Code |-> code, Description |-> description]

DecodeError == [type |-> "json", Code |-> 0, Description |-> "json: cannot decode"]

\* Variant of Error: the text of an HTTP error whatever the Code.
ErrorAlwaysHTTP(h) == "HTTP " \o ToString(h.Code) \o ": " \o h.Description

Error(h) ==
  IF h.Code # 0
  THEN "HTTP " \o ToString(h.Code) \o ": " \o h.Description
  ELSE "ERROR: " \o h.Description

(***************************************************************************)
(* Bodies of the answers, and the decoders the operations read them with.  *)
(* A JSON object decodes into any struct (keys that match no field are     *)
(* skipped), a JSON array does not decode into a struct nor an object into *)
(* a slice, and text that is not JSON decodes into nothing.                *)
(***************************************************************************)
Body(kind, message, list, slug) ==
  [kind |-> kind, message |-> message, list |-> list, slug |-> slug]

NoBody == Body("none", "", <<>>, "")

NotJson == Body("text", "", <<>>, "")

MessageBody(message) == Body("message", message, <<>>, "")

ListBody(list) == Body("list", "", list, "")

DashboardBody(slug) == Body("dashboard", "", <<>>, slug)

ZeroDataSource == [ID |-> 0, Name |-> ""]

ZeroDashboardResult == [Meta |-> [Slug |-> ""]]

DecodeMessage(body) == IF body.kind = "message" THEN body.message ELSE ""

DecodeDataSourceList(body) ==
  IF body.kind = "list"
  THEN [err |-> NilError, ds |-> body.list]
  ELSE [err |-> DecodeError, ds |-> <<>>]

DecodeDashboardResult(body) ==
  IF body.kind = "dashboard"
  THEN [err |-> NilError, dashboard |-> [Meta |-> [Slug |-> body.slug]]]
  ELSE IF body.kind = "message"
  THEN [err |-> NilError, dashboard |-> ZeroDashboardResult]
  ELSE [err |-> DecodeError, dashboard |-> ZeroDashboardResult]

(***************************************************************************)
(* What the server may answer.  SetCookie is the value of the session      *)
(* cookie the answer sets, 0 when it sets none.                            *)
(***************************************************************************)
DataSourceNames == {"testme", "other"}

DataSourceLists ==
  UNION { { [k \in 1..n |-> [ID |-> k, Name |-> names[k]]] :
              names \in [1..n -> DataSourceNames] } : n \in 0..MaxDataSources }

DashboardNames == {"new-dashboard"}

Slugs == {"new-dashboard", "new-dashboard-2"}

NoAnswer == [answered |-> FALSE, StatusCode |-> 0, Body |-> NoBody, SetCookie |-> 0]

Answer(status, body, cookie) ==
  [answered |-> TRUE, StatusCode |-> status, Body |-> body, SetCookie |-> cookie]

Failures ==
  { NoAnswer,
    Answer(401, MessageBody("Unauthorized"), 0),
    Answer(500, NotJson, 0) }

MessageAnswers == Failures \cup { Answer(200, MessageBody("done"), 0) }

LoginAnswers(count) ==
  MessageAnswers \cup
  (IF count < MaxLogins
   THEN { Answer(200, MessageBody("Logged in"), count + 1) } ELSE {})

ListAnswers ==
  MessageAnswers \cup { Answer(200, NotJson, 0) } \cup
  { Answer(200, ListBody(l), 0) : l \in DataSourceLists }

DashboardAnswers ==
  (MessageAnswers \ { Answer(401, MessageBody("Unauthorized"), 0) }) \cup
  { Answer(404, MessageBody("Dashboard not found"), 0), Answer(200, NotJson, 0) } \cup
  { Answer(200, DashboardBody(s), 0) : s \in Slugs }

(***************************************************************************)
(* httpRequest.  http.NewRequest gives no request when the url does not    *)
(* parse, and its error is not looked at: the Header of the request is set *)
(* next, which is a nil pointer dereference when there is no request.  The *)
(* client adds the cookies of the jar to the request it sends and stores   *)
(* the cookie an answer sets.                                              *)
(***************************************************************************)
NewRequest(method, base, path, body) ==
  IF base \in MalformedURLs THEN <<>>
  ELSE << [method |-> method, url |-> base \o path, body |-> body,
           contentType |-> "", cookies |-> {}] >>

ClientDo(request, answer, jar) ==
  [sent |-> [request EXCEPT !.cookies = jar],
   err |-> IF answer.answered THEN NilError
           ELSE [type |-> "url", Code |-> 0, Description |-> "connection refused"],
   response |-> answer,
   jar |-> IF answer.answered /\ answer.SetCookie # 0
           THEN {answer.SetCookie} ELSE jar]

StatusError(response) ==
  GrafanaError(response.StatusCode, DecodeMessage(response.Body))

httpRequest(s, jar, method, path, body, answer) ==
  LET request == NewRequest(method, s.url, path, body)
      do == ClientDo([request[1] EXCEPT !.contentType = "application/json"],
                     answer, jar)
  IN IF request = <<>>
     THEN [panic |-> TRUE, sent |-> <<>>, got |-> <<>>, result |-> NoBody,
           err |-> NilError, jar |-> jar]
     ELSE IF do.err # NilError
     THEN [panic |-> FALSE, sent |-> <<do.sent>>, got |-> <<do.response>>,
           result |-> NoBody,
           err |-> GrafanaError(0, "Unable to perform the http request"),
           jar |-> do.jar]
     ELSE IF do.response.StatusCode # 200
     THEN [panic |-> FALSE, sent |-> <<do.sent>>, got |-> <<do.response>>,
           result |-> NoBody, err |-> StatusError(do.response), jar |-> do.jar]
     ELSE [panic |-> FALSE, sent |-> <<do.sent>>, got |-> <<do.response>>,
           result |-> do.response.Body, err |-> NilError, jar |-> do.jar]

(***************************************************************************)
(* The operations of a Session.  Each gives the requests it sent, what it  *)
(* ended with (the values returned, or a panic) and the jar afterwards.    *)
(***************************************************************************)
Done(err, value) == [kind |-> "returned", err |-> err, value |-> value]

Aborted == [kind |-> "panic", err |-> NilError, value |-> <<>>]

Ended(h, value) ==
  [requests |-> h.sent,
   answers |-> h.got,
   out |-> IF h.panic THEN Aborted ELSE Done(h.err, value),
   jar |-> h.jar]

DoLogon(s, jar, answer) ==
  LET login == [user |-> s.User, email |-> "", password |-> s.Password]
  IN Ended(httpRequest(s, jar, "POST", "/login", <<login>>, answer), <<>>)

CreateDataSource(s, jar, ds, answer) ==
  Ended(httpRequest(s, jar, "POST", "/api/datasources", <<ds>>, answer), <<>>)

DeleteDataSource(s, jar, ds, answer) ==
  Ended(httpRequest(s, jar, "DELETE", "/api/datasources/" \o ToString(ds.ID),
                    <<ds>>, answer), <<>>)

\* Variant of GetDataSourceList: a request that failed is sent once more.
GetDataSourceListRetried(s, jar, answer) ==
  LET h == httpRequest(s, jar, "GET", "/api/datasources", <<>>, answer)
      dec == DecodeDataSourceList(h.result)
  IN IF h.panic \/ h.err # NilError
     THEN [Ended(h, << <<>> >>) EXCEPT !.requests = h.sent \o h.sent,
                                       !.answers = h.got \o h.got]
     ELSE Ended([h EXCEPT !.err = dec.err], <<dec.ds>>)

GetDataSourceList(s, jar, answer) ==
  LET h == httpRequest(s, jar, "GET", "/api/datasources", <<>>, answer)
      dec == DecodeDataSourceList(h.result)
  IN IF h.panic \/ h.err # NilError
     THEN Ended(h, << <<>> >>)
     ELSE Ended([h EXCEPT !.err = dec.err], <<dec.ds>>)

RECURSIVE LastNamed(_, _, _)
LastNamed(dslist, name, ds) ==
  IF dslist = <<>> THEN ds
  ELSE LastNamed(Tail(dslist), name,
                 IF Head(dslist).Name = name THEN Head(dslist) ELSE ds)

GetDataSource(s, jar, name, answer) ==
  LET l == GetDataSourceList(s, jar, answer)
  IN IF l.out.kind = "panic" THEN l
     ELSE IF l.out.err # NilError
     THEN [l EXCEPT !.out = Done(l.out.err, <<ZeroDataSource>>)]
     ELSE [l EXCEPT !.out = Done(NilError,
                      <<LastNamed(l.out.value[1], name, ZeroDataSource)>>)]

GetDashboard(s, jar, name, answer) ==
  LET h == httpRequest(s, jar, "GET", "/api/dashboards/db/" \o name, <<>>, answer)
      dec == DecodeDashboardResult(h.result)
  IN IF h.panic \/ h.err # NilError
     THEN Ended(h, <<ZeroDashboardResult>>)
     ELSE Ended([h EXCEPT !.err = dec.err], <<dec.dashboard>>)

UploadDashboard(s, jar, dashboard, overwrite, answer) ==
  LET content == [dashboard |-> MarshalDashboard(dashboard),
                  overwrite |-> overwrite]
  IN Ended(httpRequest(s, jar, "POST", "/api/dashboards/db", <<content>>, answer),
           <<>>)

\* Variant of UploadDashboardString: the string is sent whatever it decodes to.
UploadDashboardStringUnchecked(s, jar, dashboard, overwrite, answer) ==
  UploadDashboard(s, jar, JsonUnmarshal(dashboard, ZeroDashboard).dashboard,
                  overwrite, answer)

UploadDashboardString(s, jar, dashboard, overwrite, answer) ==
  LET dec == JsonUnmarshal(dashboard, ZeroDashboard)
  IN IF dec.err # NoErr
     THEN [requests |-> <<>>,
           answers |-> <<>>,
           out |-> Done(GrafanaError(0, "dashboard template in wrong format"), <<>>),
           jar |-> jar]
     ELSE UploadDashboard(s, jar, dec.dashboard, overwrite, answer)

DeleteDashboard(s, jar, name, answer, answer2) ==
  LET g == GetDashboard(s, jar, name, answer)
      slug == g.out.value[1].Meta.Slug
      h == httpRequest(s, g.jar, "DELETE", "/api/dashboards/db/" \o slug,
                       <<>>, answer2)
  IN IF g.out.kind = "panic" THEN [g EXCEPT !.out = Aborted]
     ELSE IF g.out.err # NilError THEN [g EXCEPT !.out = Done(g.out.err, <<>>)]
     ELSE [Ended(h, <<>>) EXCEPT !.requests = g.requests \o h.sent,
                                 !.answers = g.answers \o h.got]

(***************************************************************************)
(* Inputs of the operations.                                               *)
(***************************************************************************)
DataSources ==
  { [ID |-> 1, Name |-> "testme"], [ID |-> 2, Name |-> "other"] }

SampleDoc ==
  [editable |-> Absent, id |-> <<7>>, time |-> Absent,
   templates |-> <<HostTemplate>>, rows |-> <<FillerRow>>]

UploadDashboards ==
  { ZeroDashboard,
    ConvertTemplate([status |-> "ok", format |-> "toml", doc |-> SampleDoc]).dashboard }

DashboardStrings ==
  { [format |-> "json", doc |-> SampleDoc],
    [format |-> "toml", doc |-> SampleDoc],
    [format |-> "neither", doc |-> EmptyDoc] }

NoArgs ==
  [name |-> "", ds |-> ZeroDataSource, dashboard |-> ZeroDashboard,
   text |-> [format |-> "neither", doc |-> EmptyDoc], overwrite |-> FALSE]

NoOperation ==
  [op |-> "none", session |-> "s1", args |-> NoArgs,
   requests |-> <<>>, answers |-> <<>>, out |-> Done(NilError, <<>>),
   jarBefore |-> {}]

(***************************************************************************)
(* The builders of a Target.  GroupByTag starts an empty GroupBy with the  *)
(* entry of NewGroupBy and appends the tag entry; FilterByTag appends a    *)
(* Tag.                                                                    *)
(***************************************************************************)
MaxCalls == 3
MaxTags == 3

\* Variant of GroupByTag: the tag entry is appended and nothing else.
GroupByTagNoTime(t, tag) == [t EXCEPT !.GroupBy = Append(@, TagGroupBy(tag))]

GroupByTag(t, tag) ==
  LET started == IF Len(t.GroupBy) = 0 THEN [t EXCEPT !.GroupBy = NewGroupBy]
                 ELSE t
  IN [started EXCEPT !.GroupBy = Append(@, TagGroupBy(tag))]

FilterByTag(t, name, value) ==
  [t EXCEPT !.Tags = Append(@, [Condition |-> "", Key |-> name, Value |-> value])]

TagNames == {"host", "name", "dc"}

FilterKeys == {"host"}

TagValues == {"web1", "db1"}

StartTargets ==
  { ZeroTarget, NewTarget,
    [NewTarget EXCEPT !.GroupBy = <<TagGroupBy("dc")>>],
    MetricTarget(MetricPool[1]) }

TargetUnused ==
  /\ start = NewTarget
  /\ tgt = NewTarget
  /\ grouped = <<>>

(***************************************************************************)
(* The state machine of the converter.  file: the template file.  result:  *)
(* what the last call of ConvertTemplate on that file ended with.  prev:   *)
(* the Dashboard whose serialization the file holds, when the file was     *)
(* written from the output of a conversion.  No Session is used.           *)
(***************************************************************************)
SessionsUnused ==
  /\ sessions = [id \in SessionIds |->
                   NewSession("admin", "admin", "http://localhost:3000")]
  /\ jars = [id \in SessionIds |-> {}]
  /\ issued = 0
  /\ logged = [id \in SessionIds |-> 0]
  /\ last = NoOperation

Init ==
  /\ file \in TemplateFiles
  /\ result = NoResult
  /\ prev = NoPrev
  /\ SessionsUnused
  /\ TargetUnused

CallConvertTemplate ==
  /\ result' = ConvertTemplate(file)
  /\ UNCHANGED <<file, prev>>
  /\ UNCHANGED <<svars, tvars>>

SerializeOutput ==
  /\ result.outcome = "returned"
  /\ result.err = NoErr
  /\ file' = [status |-> "ok", format |-> "json",
              doc |-> MarshalDashboard(result.dashboard)]
  /\ prev' = [set |-> TRUE, dashboard |-> result.dashboard]
  /\ result' = NoResult
  /\ UNCHANGED <<svars, tvars>>

Next == CallConvertTemplate \/ SerializeOutput

Spec == Init /\ [][Next]_vars

(***************************************************************************)
(* The state machine of the Sessions.  sessions: the Session objects.      *)
(* jars: the cookie jar of each.  issued: how many session cookies the     *)
(* server has set.  logged: for each Session, the cookie that the answer   *)
(* to its latest accepted login set, 0 when there is none.  last: the      *)
(* latest operation, with the requests it sent, the answer to each, what   *)
(* it ended with and the jar it started with.  The converter is not used.  *)
(***************************************************************************)
ConverterUnused ==
  /\ file = [status |-> "ok", format |-> "neither", doc |-> EmptyDoc]
  /\ result = NoResult
  /\ prev = NoPrev

SessionInit ==
  /\ sessions \in [SessionIds ->
                     { NewSession(a.User, a.Password, a.url) : a \in SessionArgs }]
  /\ jars = [id \in SessionIds |-> {}]
  /\ issued = 0
  /\ logged = [id \in SessionIds |-> 0]
  /\ last = NoOperation
  /\ ConverterUnused
  /\ TargetUnused

Ran(op, id, args, r) ==
  /\ last' = [op |-> op, session |-> id, args |-> args,
              requests |-> r.requests,
              answers |-> r.answers,
              out |-> r.out, jarBefore |-> jars[JarOf(id)]]
  /\ jars' = [jars EXCEPT ![JarOf(id)] = r.jar]
  /\ UNCHANGED <<sessions, file, result, prev, tvars>>

CallNewSession ==
  \E id \in SessionIds, a \in SessionArgs :
    /\ sessions' = [sessions EXCEPT ![id] = NewSession(a.User, a.Password, a.url)]
    /\ jars' = [jars EXCEPT ![JarOf(id)] = {}]
    /\ logged' = [logged EXCEPT ![id] = 0]
    /\ last' = [NoOperation EXCEPT !.op = "NewSession", !.session = id]
    /\ UNCHANGED <<issued, file, result, prev, tvars>>

CallDoLogon ==
  \E id \in SessionIds, answer \in LoginAnswers(issued) :
    LET r == DoLogon(sessions[id], jars[JarOf(id)], answer)
        set == r.requests # <<>> /\ answer.SetCookie # 0
    IN /\ Ran("DoLogon", id, NoArgs, r)
       /\ issued' = IF set THEN answer.SetCookie ELSE issued
       /\ logged' = [logged EXCEPT
                       ![id] = IF set /\ r.out = Done(NilError, <<>>)
                               THEN answer.SetCookie ELSE @]

CallCreateDataSource ==
  \E id \in SessionIds, ds \in DataSources, answer \in MessageAnswers :
    /\ Ran("CreateDataSource", id, [NoArgs EXCEPT !.ds = ds],
           CreateDataSource(sessions[id], jars[JarOf(id)], ds, answer))
    /\ UNCHANGED <<issued, logged>>

CallDeleteDataSource ==
  \E id \in SessionIds, ds \in DataSources, answer \in MessageAnswers :
    /\ Ran("DeleteDataSource", id, [NoArgs EXCEPT !.ds = ds],
           DeleteDataSource(sessions[id], jars[JarOf(id)], ds, answer))
    /\ UNCHANGED <<issued, logged>>

CallGetDataSourceList ==
  \E id \in SessionIds, answer \in ListAnswers :
    /\ Ran("GetDataSourceList", id, NoArgs,
           GetDataSourceList(sessions[id], jars[JarOf(id)], answer))
    /\ UNCHANGED <<issued, logged>>

CallGetDataSource ==
  \E id \in SessionIds, name \in DataSourceNames, answer \in ListAnswers :
    /\ Ran("GetDataSource", id, [NoArgs EXCEPT !.name = name],
           GetDataSource(sessions[id], jars[JarOf(id)], name, answer))
    /\ UNCHANGED <<issued, logged>>

CallGetDashboard ==
  \E id \in SessionIds, name \in DashboardNames, answer \in DashboardAnswers :
    /\ Ran("GetDashboard", id, [NoArgs EXCEPT !.name = name],
           GetDashboard(sessions[id], jars[JarOf(id)], name, answer))
    /\ UNCHANGED <<issued, logged>>

CallUploadDashboard ==
  \E id \in SessionIds, dashboard \in UploadDashboards, overwrite \in BOOLEAN,
     answer \in MessageAnswers :
    /\ Ran("UploadDashboard", id,
           [NoArgs EXCEPT !.dashboard = dashboard, !.overwrite = overwrite],
           UploadDashboard(sessions[id], jars[JarOf(id)], dashboard, overwrite,
                           answer))
    /\ UNCHANGED <<issued, logged>>

CallUploadDashboardString ==
  \E id \in SessionIds, text \in DashboardStrings, overwrite \in BOOLEAN :
  \E answer \in IF text.format = "json" THEN MessageAnswers ELSE {NoAnswer} :
    /\ Ran("UploadDashboardString", id,
           [NoArgs EXCEPT !.text = text, !.overwrite = overwrite],
           UploadDashboardString(sessions[id], jars[JarOf(id)], text, overwrite,
                                 answer))
    /\ UNCHANGED <<issued, logged>>

CallDeleteDashboard ==
  \E id \in SessionIds, name \in DashboardNames, answer \in DashboardAnswers :
  \E answer2 \in IF answer.StatusCode = 200 THEN MessageAnswers ELSE {NoAnswer} :
    /\ Ran("DeleteDashboard", id, [NoArgs EXCEPT !.name = name],
           DeleteDashboard(sessions[id], jars[JarOf(id)], name, answer, answer2))
    /\ UNCHANGED <<issued, logged>>

SessionNext ==
  \/ CallNewSession
  \/ CallDoLogon
  \/ CallCreateDataSource
  \/ CallDeleteDataSource
  \/ CallGetDataSourceList
  \/ CallGetDataSource
  \/ CallGetDashboard
  \/ CallUploadDashboard
  \/ CallUploadDashboardString
  \/ CallDeleteDashboard

SessionSpec == SessionInit /\ [][SessionNext]_vars

(***************************************************************************)
(* The state machine of a Target.  start: the Target before any call.      *)
(* tgt: the Target.  grouped: the tags GroupByTag was called with, in      *)
(* call order.  Neither the converter nor a Session is used.               *)
(***************************************************************************)
TargetInit ==
  /\ start \in StartTargets
  /\ tgt = start
  /\ grouped = <<>>
  /\ ConverterUnused
  /\ SessionsUnused

CallGroupByTag ==
  \E tag \in TagNames :
    /\ Len(grouped) < MaxCalls
    /\ tgt' = GroupByTag(tgt, tag)
    /\ grouped' = Append(grouped, tag)
    /\ UNCHANGED <<start, file, result, prev, svars>>

CallFilterByTag ==
  \E name \in FilterKeys, value \in TagValues :
    /\ Len(tgt.Tags) < MaxTags
    /\ tgt' = FilterByTag(tgt, name, value)
    /\ UNCHANGED <<start, grouped, file, result, prev, svars>>

TargetNext == CallGroupByTag \/ CallFilterByTag

TargetSpec == TargetInit /\ [][TargetNext]_vars

(***************************************************************************)
(* Vocabulary of the properties.                                           *)
(***************************************************************************)
Returned == result.outcome = "returned" /\ result.err = NoErr

Converted == result.outcome # "none"

SameShape ==
  /\ Len(result.dashboard.Rows) = Len(file.doc.rows)
  /\ \A i \in 1..Len(file.doc.rows) :
       Len(result.dashboard.Rows[i].Panels) = Len(file.doc.rows[i].panels)

PanelIds ==
  { <<i, j>> : i \in 1..Len(file.doc.rows), j \in 1..MaxPanels + 1 }

Places == { ij \in PanelIds : ij[2] <= Len(file.doc.rows[ij[1]].panels) }

DocPanel(ij) == file.doc.rows[ij[1]].panels[ij[2]]

OutPanel(ij) == result.dashboard.Rows[ij[1]].Panels[ij[2]]

Synthesized(ij, k) == OutPanel(ij).Targets[Len(DocPanel(ij).targets) + k]

(***************************************************************************)
(* C1 (as amended): a panel decoded with N Metric entries is left with     *)
(* exactly N more Targets than its explicit Targets; each of the N has     *)
(* exactly 2 Tags, with keys host then name, and a group-by sequence of    *)
(* length 3: the time/auto entry of NewGroupBy, then tag name, then tag    *)
(* host.                                                                   *)
(***************************************************************************)
C1_MetricsAddTargets ==
  Returned =>
    /\ SameShape
    /\ \A ij \in Places :
         LET n == Len(OutPanel(ij).Metrics)
         IN /\ file.format = "toml" => n = Len(DocPanel(ij).metrics)
            /\ Len(OutPanel(ij).Targets) = Len(DocPanel(ij).targets) + n
            /\ \A k \in 1..n :
                 /\ Len(Synthesized(ij, k).Tags) = 2
                 /\ Synthesized(ij, k).Tags[1].Key = "host"
                 /\ Synthesized(ij, k).Tags[2].Key = "name"
                 /\ Synthesized(ij, k).GroupBy =
                      << [Type |-> "time", Interval |-> "auto", Params |-> <<>>],
                         [Type |-> "tag", Interval |-> "", Params |-> <<"name">>],
                         [Type |-> "tag", Interval |-> "", Params |-> <<"host">>] >>

C1_Witness ==
  /\ Returned
  /\ file.format = "toml"
  /\ \E ij \in Places :
       /\ Len(DocPanel(ij).metrics) >= 2
       /\ Len(DocPanel(ij).targets) >= 1
       /\ Len(OutPanel(ij).Targets) = Len(DocPanel(ij).targets) + 2

\* C1 as stated: the group-by sequence of a synthesized Target has length 2,
\* ordered [name, host].
C1_GroupByOfLengthTwo ==
  (Returned /\ SameShape) =>
    \A ij \in Places :
      \A k \in 1..Len(OutPanel(ij).Metrics) :
        /\ Len(OutPanel(ij).Targets) =
             Len(DocPanel(ij).targets) + Len(OutPanel(ij).Metrics)
        /\ Len(Synthesized(ij, k).Tags) = 2
        /\ Len(Synthesized(ij, k).GroupBy) = 2
        /\ Synthesized(ij, k).GroupBy[1].Params = <<"name">>
        /\ Synthesized(ij, k).GroupBy[2].Params = <<"host">>

(***************************************************************************)
(* C2: the Target synthesized from a Metric entry with measurement m,      *)
(* fields F and hosts H has Measurement m and the Tags, in this order,     *)
(* {host, "/" + H joined by "|" + "/", no Condition} and                   *)
(* {name, "/" + F joined by "|" + "/", AND}.  The expected values are      *)
(* written out for the entries of MetricPool, and built from the right by  *)
(* Alternation for the general statement.                                  *)
(***************************************************************************)
RECURSIVE Alternation(_)
Alternation(elems) ==
  IF Len(elems) = 0 THEN ""
  ELSE IF Len(elems) = 1 THEN elems[1]
  ELSE Alternation(SubSeq(elems, 1, Len(elems) - 1)) \o "|" \o elems[Len(elems)]

ExpectedTags(metric) ==
  CASE metric.Measurement = "cpu" ->
         << [Condition |-> "", Key |-> "host", Value |-> "/host1|host2/"],
            [Condition |-> "AND", Key |-> "name", Value |-> "/busy/"] >>
    [] metric.Measurement = "mem" ->
         << [Condition |-> "", Key |-> "host", Value |-> "/host1/"],
            [Condition |-> "AND", Key |-> "name", Value |-> "/used|free/"] >>
    [] metric.Measurement = "net" ->
         << [Condition |-> "", Key |-> "host", Value |-> "//"],
            [Condition |-> "AND", Key |-> "name", Value |-> "//"] >>

C2_SynthesizedTags ==
  (Returned /\ file.format = "toml") =>
    /\ SameShape
    /\ \A ij \in Places :
         /\ Len(OutPanel(ij).Targets) >=
              Len(DocPanel(ij).targets) + Len(DocPanel(ij).metrics)
         /\ \A k \in 1..Len(DocPanel(ij).metrics) :
              LET metric == DocPanel(ij).metrics[k]
              IN /\ Synthesized(ij, k).Measurement = metric.Measurement
                 /\ Synthesized(ij, k).Tags = ExpectedTags(metric)
                 /\ Synthesized(ij, k).Tags[1].Value =
                      ("/" \o Alternation(metric.Hosts)) \o "/"
                 /\ Synthesized(ij, k).Tags[2].Value =
                      ("/" \o Alternation(metric.Fields)) \o "/"

C2_Witness ==
  /\ Returned
  /\ file.format = "toml"
  /\ \E ij \in Places :
       /\ Len(DocPanel(ij).metrics) = 2
       /\ DocPanel(ij).metrics[1] =
            [Measurement |-> "cpu", Fields |-> <<"busy">>,
             Hosts |-> <<"host1", "host2">>]
       /\ DocPanel(ij).metrics[2].Fields = <<"used", "free">>
       /\ Synthesized(ij, 1).Tags[1].Value = "/host1|host2/"
       /\ Synthesized(ij, 2).Tags[2].Value = "/used|free/"

(***************************************************************************)
(* C3: when the text is neither TOML nor JSON, ConvertTemplate returns an  *)
(* error that names both parse failures, with the empty Dashboard.         *)
(* The code does not: see BothFailed.                                      *)
(***************************************************************************)
C3_ParseFailureReturnsError ==
  (file.status = "ok" /\ file.format = "neither" /\ Converted) =>
    /\ result.outcome = "returned"
    /\ result.err =
         "Unable to parse template: TOML error: toml: syntax error JSON error: json: syntax error"
    /\ result.dashboard = ZeroDashboard

(***************************************************************************)
(* C4 (as amended): when the template file cannot be opened or cannot be   *)
(* read, ConvertTemplate panics with the I/O error: it returns nothing to  *)
(* its caller, neither a Dashboard nor an error value.                     *)
(***************************************************************************)
C4_IOFailurePanics ==
  (file.status \in {"missing", "unreadable"} /\ Converted) =>
    /\ result.outcome = "panic"
    /\ file.status = "missing" => result.panic = "open: no such file or directory"
    /\ file.status = "unreadable" => result.panic = "read: input/output error"

C4_Witness ==
  /\ file.status = "unreadable"
  /\ result.outcome = "panic"
  /\ result.panic = "read: input/output error"

\* C4 as stated: the failure is an error returned to the caller.
C4_IOFailureReturned ==
  (file.status \in {"missing", "unreadable"} /\ Converted) =>
    /\ result.outcome = "returned"
    /\ result.err # NoErr

(***************************************************************************)
(* C5 (as amended): the TOML decoder is tried first and the first success  *)
(* wins: a TOML template keeps the ID it sets and has its Metric entries   *)
(* decoded, which the JSON path would have cleared and ignored.  When TOML *)
(* fails the Dashboard is not reset: the JSON decoder writes into the same *)
(* Dashboard, so a JSON template that has no editable key comes out with   *)
(* the preset editable = true, and one that has the key with its value.    *)
(***************************************************************************)
C5_TomlFirstJsonIntoSameDashboard ==
  Returned =>
    /\ SameShape
    /\ file.format = "toml" =>
         /\ result.dashboard.ID = Get(file.doc.id, 0)
         /\ \A ij \in Places : Len(OutPanel(ij).Metrics) = Len(DocPanel(ij).metrics)
    /\ file.format = "json" =>
         /\ result.dashboard.Editable = Get(file.doc.editable, TRUE)
         /\ result.dashboard.ID = 0

C5_Witness ==
  /\ Returned
  /\ file.format = "json"
  /\ ~prev.set
  /\ file.doc.editable = Absent
  /\ file.doc.id = <<7>>
  /\ result.dashboard.Editable

\* C5 as stated: the result of a JSON template is what the JSON decoder
\* produces on a fresh (reset) Dashboard, whose editable is false unless the
\* text sets it.
C5_JsonDecodedIntoFreshDashboard ==
  (Returned /\ file.format = "json") =>
    result.dashboard.Editable = Get(file.doc.editable, FALSE)

(***************************************************************************)
(* C6 (as amended): in the merge of Row and Panel defaults, every field    *)
(* that the template sets to a non-zero value (a non-empty string, a       *)
(* non-zero number, true) has that value after the merge.                  *)
(***************************************************************************)
KeptIfNonZero(opt, zero, out) == (opt # Absent /\ opt[1] # zero) => out = opt[1]

KeptIfNotDefault(opt, default, out) ==
  (opt # Absent /\ opt[1] # default) => out = opt[1]

C6_NonZeroFieldsSurviveMerge ==
  Returned =>
    /\ SameShape
    /\ \A i \in 1..Len(file.doc.rows) :
         /\ KeptIfNonZero(file.doc.rows[i].height, "", result.dashboard.Rows[i].Height)
         /\ KeptIfNonZero(file.doc.rows[i].editable, FALSE,
                          result.dashboard.Rows[i].Editable)
    /\ \A ij \in Places :
         /\ KeptIfNonZero(DocPanel(ij).editable, FALSE, OutPanel(ij).Editable)
         /\ KeptIfNonZero(DocPanel(ij).span, 0, OutPanel(ij).Span)
         /\ KeptIfNonZero(DocPanel(ij).type, "", OutPanel(ij).Type)
         /\ KeptIfNonZero(DocPanel(ij).fill, 0, OutPanel(ij).Fill)
         /\ KeptIfNonZero(DocPanel(ij).legendShow, FALSE, OutPanel(ij).Legend.Show)
         /\ KeptIfNonZero(DocPanel(ij).nullPointMode, "", OutPanel(ij).NullPointMode)

C6_Witness ==
  /\ Returned
  /\ \E ij \in Places :
       /\ file.doc.rows[ij[1]].height = <<"100px">>
       /\ result.dashboard.Rows[ij[1]].Height = "100px"
       /\ DocPanel(ij).span = <<12>>
       /\ DocPanel(ij).type = <<"text">>
       /\ DocPanel(ij).fill = <<2>>
       /\ OutPanel(ij).Span = 12

\* C6 as stated: every field set explicitly to a value other than the
\* default (row height "200px", editable true; panel span 6, type "graph",
\* editable true, fill 0) has the same value after the merge.
C6_NonDefaultFieldsSurviveMerge ==
  (Returned /\ SameShape) =>
    /\ \A i \in 1..Len(file.doc.rows) :
         /\ KeptIfNotDefault(file.doc.rows[i].height, "200px",
                             result.dashboard.Rows[i].Height)
         /\ KeptIfNotDefault(file.doc.rows[i].editable, TRUE,
                             result.dashboard.Rows[i].Editable)
    /\ \A ij \in Places :
         /\ KeptIfNotDefault(DocPanel(ij).editable, TRUE, OutPanel(ij).Editable)
         /\ KeptIfNotDefault(DocPanel(ij).span, 6, OutPanel(ij).Span)
         /\ KeptIfNotDefault(DocPanel(ij).type, "graph", OutPanel(ij).Type)
         /\ KeptIfNotDefault(DocPanel(ij).fill, 0, OutPanel(ij).Fill)

(***************************************************************************)
(* C7: a Row or Panel field left at the zero value in the template (absent *)
(* or set to the zero value) comes out with the documented default: Row    *)
(* height "200px" and editable true; Panel span 6, type "graph", editable  *)
(* true, fill 0.                                                           *)
(***************************************************************************)
DefaultIfZero(opt, zero, default, out) == Get(opt, zero) = zero => out = default

C7_ZeroFieldsGetDefaults ==
  Returned =>
    /\ SameShape
    /\ \A i \in 1..Len(file.doc.rows) :
         /\ DefaultIfZero(file.doc.rows[i].height, "", "200px",
                          result.dashboard.Rows[i].Height)
         /\ DefaultIfZero(file.doc.rows[i].editable, FALSE, TRUE,
                          result.dashboard.Rows[i].Editable)
    /\ \A ij \in Places :
         /\ DefaultIfZero(DocPanel(ij).span, 0, 6, OutPanel(ij).Span)
         /\ DefaultIfZero(DocPanel(ij).type, "", "graph", OutPanel(ij).Type)
         /\ DefaultIfZero(DocPanel(ij).editable, FALSE, TRUE, OutPanel(ij).Editable)
         /\ DefaultIfZero(DocPanel(ij).fill, 0, 0, OutPanel(ij).Fill)

C7_Witness ==
  /\ Returned
  /\ ~prev.set
  /\ \E ij \in Places :
       /\ file.doc.rows[ij[1]].height = Absent
       /\ file.doc.rows[ij[1]].editable = Absent
       /\ DocPanel(ij).span = Absent
       /\ DocPanel(ij).type = Absent
       /\ DocPanel(ij).editable = Absent
       /\ DocPanel(ij).fill = Absent
       /\ result.dashboard.Rows[ij[1]].Height = "200px"
       /\ OutPanel(ij).Span = 6
       /\ OutPanel(ij).Type = "graph"

(***************************************************************************)
(* C8 (as amended): converting the JSON serialization of the output of a   *)
(* previous conversion yields that output again, except that the ID is     *)
(* cleared to 0 and every Panel's Metrics, which are not serialized, are   *)
(* empty: no Target is added and no other field changes.                   *)
(***************************************************************************)
WithoutMetrics(dashboard) ==
  [dashboard EXCEPT
     !.Rows = [i \in 1..Len(dashboard.Rows) |->
                 [dashboard.Rows[i] EXCEPT
                    !.Panels = [j \in 1..Len(dashboard.Rows[i].Panels) |->
                                  [dashboard.Rows[i].Panels[j] EXCEPT
                                     !.Metrics = <<>>]]]]]

C8_ReconversionKeepsAllButIDAndMetrics ==
  (prev.set /\ Returned) =>
    result.dashboard = [WithoutMetrics(prev.dashboard) EXCEPT !.ID = 0]

C8_Witness ==
  /\ prev.set
  /\ Returned
  /\ prev.dashboard.ID = 7
  /\ \E i \in 1..Len(prev.dashboard.Rows) :
       \E j \in 1..Len(prev.dashboard.Rows[i].Panels) :
         /\ Len(prev.dashboard.Rows[i].Panels[j].Metrics) = 2
         /\ Len(prev.dashboard.Rows[i].Panels[j].Targets) = 4
         /\ Len(result.dashboard.Rows[i].Panels[j].Targets) = 4

\* C8 as stated: the second conversion yields a Dashboard equal to the
\* output of the first.
C8_ReconversionChangesNothing ==
  (prev.set /\ Returned) => result.dashboard = prev.dashboard

(***************************************************************************)
(* C9 (as amended): a Dashboard whose parsed time range is entirely        *)
(* zero-valued comes out with from "now-24h", to "now" (now false); one    *)
(* whose template sets a time field to a non-zero value keeps its whole    *)
(* time range exactly as parsed.                                           *)
(***************************************************************************)
ParsedTime ==
  IF file.doc.time = Absent THEN [From |-> "", Now |-> FALSE, To |-> ""]
  ELSE [From |-> Get(file.doc.time[1].from, ""),
        Now |-> Get(file.doc.time[1].now, FALSE),
        To |-> Get(file.doc.time[1].to, "")]

SetsSomeTimeField ==
  /\ file.doc.time # Absent
  /\ \/ file.doc.time[1].from # Absent
     \/ file.doc.time[1].now # Absent
     \/ file.doc.time[1].to # Absent

C9_TimeRangeDefault ==
  Returned =>
    /\ (ParsedTime.From = "" /\ ~ParsedTime.Now /\ ParsedTime.To = "") =>
         result.dashboard.GTime = [From |-> "now-24h", Now |-> FALSE, To |-> "now"]
    /\ (ParsedTime.From # "" \/ ParsedTime.Now \/ ParsedTime.To # "") =>
         result.dashboard.GTime = ParsedTime

C9_Witness ==
  /\ Returned
  /\ ~prev.set
  /\ file.doc.time = TimeDoc(Absent, <<TRUE>>, Absent)
  /\ result.dashboard.GTime = [From |-> "", Now |-> TRUE, To |-> ""]

\* C9 as stated: a Dashboard whose template sets any time field explicitly
\* keeps its whole time range exactly as parsed.
C9_ExplicitTimeKept ==
  (Returned /\ SetsSomeTimeField) => result.dashboard.GTime = ParsedTime

(***************************************************************************)
(* C10 (as amended): ConvertTemplate leaves every Panel's Metrics as they  *)
(* were decoded (it appends Targets and does not empty the sequence); the  *)
(* JSON serialization of the returned Dashboard contains no Metric entry.  *)
(***************************************************************************)
C10_MetricsKeptButNotSerialized ==
  /\ (Returned /\ file.format = "toml") =>
       /\ SameShape
       /\ \A ij \in Places : OutPanel(ij).Metrics = DocPanel(ij).metrics
  /\ prev.set =>
       /\ file.format = "json"
       /\ \A ij \in Places : DocPanel(ij).metrics = <<>>

C10_Witness ==
  /\ prev.set
  /\ \E ij \in Places :
       /\ ij[1] <= Len(prev.dashboard.Rows)
       /\ ij[2] <= Len(prev.dashboard.Rows[ij[1]].Panels)
       /\ Len(prev.dashboard.Rows[ij[1]].Panels[ij[2]].Metrics) = 2
       /\ DocPanel(ij).metrics = <<>>
       /\ Len(DocPanel(ij).targets) >= 2

\* C10 as stated: every Panel's Metric sequence of the returned Dashboard is
\* empty.
C10_NoMetricsInReturnedDashboard ==
  (Returned /\ SameShape) => \A ij \in Places : OutPanel(ij).Metrics = <<>>

(***************************************************************************)
(* C11 (as amended): editable = true is preset before either decoder runs, *)
(* so a returned Dashboard, from a TOML template and from a JSON template  *)
(* alike, has editable = true unless the template itself sets editable, in *)
(* which case it has the template's value.                                 *)
(***************************************************************************)
C11_EditableDefaultUnlessSet ==
  Returned =>
    /\ file.doc.editable = Absent => result.dashboard.Editable = TRUE
    /\ file.doc.editable = <<TRUE>> => result.dashboard.Editable = TRUE
    /\ file.doc.editable = <<FALSE>> => result.dashboard.Editable = FALSE

C11_Witness ==
  /\ Returned
  /\ ~prev.set
  /\ file.format = "toml"
  /\ file.doc.editable = Absent
  /\ file.doc.rows # <<>>
  /\ result.dashboard.Editable = TRUE

\* C11 as stated: every Dashboard returned successfully has editable = true.
C11_EditableAlwaysTrue == Returned => result.dashboard.Editable = TRUE

(***************************************************************************)
(* Vocabulary of the properties of the Sessions.                           *)
(***************************************************************************)
Used == sessions[last.session]

Accepted(answer) == answer.answered /\ answer.StatusCode = 200

Unperformed == GrafanaError(0, "Unable to perform the http request")

Refused(answer) ==
  [type |-> "GrafanaError", Code |-> answer.StatusCode,
   Description |-> IF answer.Body.kind = "message" THEN answer.Body.message
                   ELSE ""]

ReadAndDeleteOps ==
  {"GetDataSourceList", "GetDataSource", "GetDashboard", "DeleteDataSource",
   "DeleteDashboard"}

TransportOps ==
  ReadAndDeleteOps \cup {"DoLogon", "CreateDataSource", "UploadDashboard"}

(***************************************************************************)
(* C12 (as amended): GetDataSourceList, GetDataSource, GetDashboard and    *)
(* DeleteDataSource send at most one request per invocation and            *)
(* DeleteDashboard at most two, the second only after the first was        *)
(* answered with success; no request follows a failed one.  An invocation  *)
(* sends no request exactly when the url of the Session does not parse,    *)
(* and then it panics.  Otherwise it returns: a GrafanaError with the      *)
(* status and the message of the server when the last answer is a failure, *)
(* a GrafanaError with Code 0 when the request could not be performed, and *)
(* a nil error or the error of the JSON decoder when the last answer is a  *)
(* success.                                                                *)
(***************************************************************************)
C12_RequestsAndOutcome ==
  last.op \in ReadAndDeleteOps =>
    LET n == Len(last.requests)
    IN /\ n <= (IF last.op = "DeleteDashboard" THEN 2 ELSE 1)
       /\ \A k \in 1..n - 1 : Accepted(last.answers[k])
       /\ \A j, k \in 1..n :
            j # k => <<last.requests[j].method, last.requests[j].url>> #
                     <<last.requests[k].method, last.requests[k].url>>
       /\ n = 0 <=> Used.url \in MalformedURLs
       /\ n = 0 => last.out.kind = "panic"
       /\ n > 0 =>
            /\ last.out.kind = "returned"
            /\ ~last.answers[n].answered => last.out.err = Unperformed
            /\ (last.answers[n].answered /\ last.answers[n].StatusCode # 200) =>
                 last.out.err = Refused(last.answers[n])
            /\ Accepted(last.answers[n]) => last.out.err \in {NilError, DecodeError}
       /\ (last.op = "DeleteDashboard" /\ n = 1 /\ Accepted(last.answers[1])) =>
            last.out.err = DecodeError

C12_Witness ==
  /\ last.op = "DeleteDashboard"
  /\ Len(last.requests) = 2
  /\ last.requests[1].method = "GET"
  /\ last.requests[2].method = "DELETE"
  /\ last.answers[2] = Answer(401, MessageBody("Unauthorized"), 0)
  /\ last.out.err.Code = 401

\* C12 as stated: exactly one request per invocation, which ends with a typed
\* result or with an error carrying the status and the message of the server.
C12_ExactlyOneRequest ==
  last.op \in ReadAndDeleteOps =>
    /\ Len(last.requests) = 1
    /\ last.out.kind = "returned"
    /\ \/ last.out.err = NilError
       \/ /\ last.answers[1].answered
          /\ last.out.err = Refused(last.answers[1])

(***************************************************************************)
(* C13: DeleteDashboard(name) first retrieves the dashboard by name; it    *)
(* sends the DELETE request only if the retrieval succeeded, to the slug   *)
(* of the metadata retrieved; when the retrieval fails it returns that     *)
(* error and sends no DELETE request.                                      *)
(***************************************************************************)
C13_DeleteAfterRetrieval ==
  last.op = "DeleteDashboard" =>
    LET n == Len(last.requests)
        retrieved == /\ n >= 1
                     /\ last.requests[1].method = "GET"
                     /\ last.requests[1].url =
                          Used.url \o "/api/dashboards/db/" \o last.args.name
                     /\ Accepted(last.answers[1])
                     /\ last.answers[1].Body.kind \in {"dashboard", "message"}
    IN /\ \A k \in 1..n :
            last.requests[k].method = "DELETE" =>
              /\ k = 2
              /\ retrieved
              /\ last.requests[k].url =
                   Used.url \o "/api/dashboards/db/" \o last.answers[1].Body.slug
       /\ retrieved => (n = 2 /\ last.requests[2].method = "DELETE")
       /\ ~retrieved => (last.out.kind = "returned" /\ last.out.err # NilError)

(***************************************************************************)
(* C14: UploadDashboard(dashboard, overwrite) sends exactly one request,   *)
(* POST to /api/dashboards/db, whose body is the given Dashboard and the   *)
(* given flag, and returns nil exactly when that request is answered with  *)
(* success; the same holds of the Dashboard that UploadDashboardString     *)
(* decodes.                                                                *)
(***************************************************************************)
C14_OneCreationRequest ==
  (\/ last.op = "UploadDashboard"
   \/ last.op = "UploadDashboardString" /\ last.args.text.format = "json") =>
    LET given == IF last.op = "UploadDashboard" THEN last.args.dashboard
                 ELSE DecodeDashboard(last.args.text.doc, ZeroDashboard, "json")
    IN /\ Len(last.requests) = 1
       /\ last.requests[1].method = "POST"
       /\ last.requests[1].url = Used.url \o "/api/dashboards/db"
       /\ last.requests[1].body[1].overwrite = last.args.overwrite
       /\ DecodeDashboard(last.requests[1].body[1].dashboard, ZeroDashboard, "json")
            = WithoutMetrics(given)
       /\ last.out = Done(NilError, <<>>) <=> Accepted(last.answers[1])

(***************************************************************************)
(* C15: UploadDashboardString on a string that does not decode as a        *)
(* Dashboard returns GrafanaError{0, "dashboard template in wrong format"} *)
(* and sends no request; a request is sent only for a string that decodes, *)
(* and it is the request of UploadDashboard for the decoded Dashboard.     *)
(***************************************************************************)
C15_ValidatedBeforeSending ==
  last.op = "UploadDashboardString" =>
    /\ last.args.text.format # "json" =>
         /\ last.requests = <<>>
         /\ last.out.kind = "returned"
         /\ last.out.err = [type |-> "GrafanaError", Code |-> 0,
                            Description |-> "dashboard template in wrong format"]
         /\ jars[last.session] = last.jarBefore
    /\ last.requests # <<>> =>
         /\ last.args.text.format = "json"
         /\ Len(last.requests) = 1
         /\ last.requests[1].method = "POST"
         /\ last.requests[1].url = Used.url \o "/api/dashboards/db"
         /\ last.requests[1].body =
              << [dashboard |->
                    MarshalDashboard(DecodeDashboard(last.args.text.doc,
                                                     ZeroDashboard, "json")),
                  overwrite |-> last.args.overwrite] >>

C15_Witness ==
  /\ last.op = "UploadDashboardString"
  /\ last.args.text.format = "toml"
  /\ Used.url = "http://localhost:3000"
  /\ last.requests = <<>>
  /\ last.out.err.Description = "dashboard template in wrong format"

(***************************************************************************)
(* C16: a GrafanaError has Code 0 exactly when the failure is not an       *)
(* answer of the server: a request that could not be performed and a       *)
(* validation failure give Code 0 and the text "ERROR: <description>";     *)
(* every answer with a status other than success gives a GrafanaError      *)
(* whose Code is the status and whose Description is the message of the    *)
(* server, with the text "HTTP <code>: <description>".                     *)
(***************************************************************************)
C16_CodeZeroIffNotHTTP ==
  LET n == Len(last.requests)
      err == last.out.err
      local == n = 0 \/ ~last.answers[n].answered
  IN /\ (last.out.kind = "returned" /\ err.type = "GrafanaError") =>
          /\ err.Code = 0 <=> local
          /\ n = 0 => Error(err) = "ERROR: dashboard template in wrong format"
          /\ (n > 0 /\ local) => Error(err) = "ERROR: Unable to perform the http request"
          /\ ~local =>
               /\ err.Code = last.answers[n].StatusCode
               /\ err.Description = DecodeMessage(last.answers[n].Body)
               /\ err.Code = 401 => Error(err) = "HTTP 401: Unauthorized"
               /\ err.Code = 404 => Error(err) = "HTTP 404: Dashboard not found"
               /\ err.Code = 500 => Error(err) = "HTTP 500: "
               /\ err.Code \in {401, 404, 500}
     /\ (n > 0 /\ last.answers[n].answered /\ last.answers[n].StatusCode # 200) =>
          (last.out.kind = "returned" /\ err.type = "GrafanaError")

C16_Witness ==
  /\ last.op = "GetDashboard"
  /\ last.answers = << Answer(404, MessageBody("Dashboard not found"), 0) >>
  /\ last.out.err = [type |-> "GrafanaError", Code |-> 404,
                     Description |-> "Dashboard not found"]

(***************************************************************************)
(* C17: every operation that invokes the transport returns a non-nil error *)
(* whenever its request cannot be built, cannot be performed or is         *)
(* answered with a failure, and none aborts the process.                   *)
(***************************************************************************)
C17_FailureReturnsError ==
  last.op \in TransportOps =>
    /\ last.out.kind # "panic"
    /\ (\/ Used.url \in MalformedURLs
        \/ \E k \in 1..Len(last.answers) : ~Accepted(last.answers[k])) =>
         (last.out.kind = "returned" /\ last.out.err # NilError)

(***************************************************************************)
(* C18: GetDataSource(name) returns the last entry of the server's list    *)
(* whose Name is name when there is one; the zero-valued DataSource with a *)
(* nil error when the list request succeeds and no entry matches; and the  *)
(* error of the list request when that fails.                              *)
(***************************************************************************)
C18_LastMatchOrZero ==
  last.op = "GetDataSource" =>
    LET listed == /\ Len(last.requests) = 1
                  /\ Accepted(last.answers[1])
                  /\ last.answers[1].Body.kind = "list"
        dslist == last.answers[1].Body.list
        matches == { k \in 1..Len(dslist) : dslist[k].Name = last.args.name }
        latest == CHOOSE k \in matches : \A j \in matches : j <= k
    IN /\ (listed /\ matches # {}) =>
            /\ last.out = Done(NilError, <<dslist[latest]>>)
            /\ last.out.value[1].Name = last.args.name
       /\ (listed /\ matches = {}) =>
            last.out = Done(NilError, << [ID |-> 0, Name |-> ""] >>)
       /\ ~listed => (last.out.kind = "returned" /\ last.out.err # NilError)

(***************************************************************************)
(* C19: the cookie that the answer to an accepted DoLogon set stays in the *)
(* jar of that Session and is carried by every later request of the        *)
(* Session; it is never in the jar nor in a request of another Session; a  *)
(* Session with no accepted DoLogon holds no cookie, and a failed DoLogon  *)
(* leaves the jar as it was.                                               *)
(***************************************************************************)
C19_CookieKeptPerSession ==
  /\ \A id \in SessionIds :
       /\ logged[id] # 0 => jars[id] = {logged[id]}
       /\ logged[id] = 0 => jars[id] = {}
       /\ \A other \in SessionIds \ {id} :
            logged[other] # 0 =>
              /\ logged[other] \notin jars[id]
              /\ last.session = id =>
                   \A k \in 1..Len(last.requests) :
                     logged[other] \notin last.requests[k].cookies
  /\ (last.op \notin {"none", "NewSession", "DoLogon"} /\ logged[last.session] # 0) =>
       \A k \in 1..Len(last.requests) :
         last.requests[k].cookies = {logged[last.session]}
  /\ (last.op = "DoLogon" /\ last.out.err # NilError) =>
       jars[last.session] = last.jarBefore

C19_Witness ==
  /\ logged["s1"] = 1
  /\ logged["s2"] = 2
  /\ last.op = "DeleteDashboard"
  /\ last.session = "s1"
  /\ Len(last.requests) = 2
  /\ last.requests[1].cookies = {1}
  /\ last.requests[2].cookies = {1}

(***************************************************************************)
(* C20: the Targets synthesized from the Metric entries come after the     *)
(* Panel's explicit Targets and in the order of the Metric entries; the    *)
(* explicit Targets keep their position and content; every synthesized     *)
(* Target has alias "$tag_host $tag_name" and dsType "influxdb".           *)
(***************************************************************************)
TargetAsWritten(t) ==
  [Alias |-> IF t.alias = Absent THEN "" ELSE t.alias[1],
   Measurement |-> IF t.measurement = Absent THEN "" ELSE t.measurement[1],
   GroupBy |-> t.groupBy,
   Tags |-> t.tags,
   DsType |-> IF t.dsType = Absent THEN "" ELSE t.dsType[1]]

C20_SynthesizedAfterExplicit ==
  (Returned /\ file.format = "toml") =>
    /\ SameShape
    /\ \A ij \in Places :
         LET e == Len(DocPanel(ij).targets)
             n == Len(DocPanel(ij).metrics)
         IN /\ Len(OutPanel(ij).Targets) = e + n
            /\ \A k \in 1..e :
                 OutPanel(ij).Targets[k] = TargetAsWritten(DocPanel(ij).targets[k])
            /\ \A k \in 1..n :
                 /\ OutPanel(ij).Targets[e + k].Measurement =
                      DocPanel(ij).metrics[k].Measurement
                 /\ OutPanel(ij).Targets[e + k].Alias = "$tag_host $tag_name"
                 /\ OutPanel(ij).Targets[e + k].DsType = "influxdb"

C20_Witness ==
  /\ Returned
  /\ file.format = "toml"
  /\ \E ij \in Places :
       /\ Len(DocPanel(ij).targets) = 2
       /\ Len(DocPanel(ij).metrics) = 2
       /\ OutPanel(ij).Targets[1].Measurement = "df"
       /\ OutPanel(ij).Targets[2].Measurement = "load"
       /\ OutPanel(ij).Targets[3].Measurement = "mem"
       /\ OutPanel(ij).Targets[4].Measurement = "net"

(***************************************************************************)
(* C21: a Dashboard returned for a JSON template has ID 0 whatever id the  *)
(* document carries; a Dashboard returned for a TOML template has the id   *)
(* the document sets (0 when it sets none).                                *)
(***************************************************************************)
C21_IDClearedForJsonOnly ==
  Returned =>
    /\ file.format = "json" => result.dashboard.ID = 0
    /\ file.format = "toml" =>
         /\ file.doc.id = <<7>> => result.dashboard.ID = 7
         /\ file.doc.id \in {Absent, <<0>>} => result.dashboard.ID = 0
         /\ file.doc.id \in {Absent, <<0>>, <<7>>}

C21_Witness ==
  /\ Returned
  /\ ~prev.set
  /\ file.format = "json"
  /\ file.doc.id = <<7>>
  /\ result.dashboard.ID = 0

(***************************************************************************)
(* C22: every Row and every Panel of a returned Dashboard has editable =   *)
(* true; a template that sets editable = false on a Row or Panel gives the *)
(* same Dashboard as the template that omits the key there; and every      *)
(* Panel whose template sets no legend.show has legend.show = true, every  *)
(* Panel whose template sets no nullPointMode has nullPointMode =          *)
(* "connected".                                                            *)
(***************************************************************************)
OmitIfFalse(opt) == IF opt = <<FALSE>> THEN Absent ELSE opt

WithoutFalseEditable(doc) ==
  [doc EXCEPT
     !.rows = [i \in 1..Len(doc.rows) |->
                 [doc.rows[i] EXCEPT
                    !.editable = OmitIfFalse(@),
                    !.panels = [j \in 1..Len(doc.rows[i].panels) |->
                                  [doc.rows[i].panels[j] EXCEPT
                                     !.editable = OmitIfFalse(@)]]]]]

C22_RowsAndPanelsEditable ==
  Returned =>
    /\ \A i \in 1..Len(result.dashboard.Rows) :
         /\ result.dashboard.Rows[i].Editable = TRUE
         /\ \A j \in 1..Len(result.dashboard.Rows[i].Panels) :
              result.dashboard.Rows[i].Panels[j].Editable = TRUE
    /\ SameShape
    /\ \A ij \in Places :
         /\ DocPanel(ij).legendShow = Absent => OutPanel(ij).Legend.Show = TRUE
         /\ DocPanel(ij).nullPointMode = Absent =>
              OutPanel(ij).NullPointMode = "connected"
    /\ result = ConvertTemplate([file EXCEPT !.doc = WithoutFalseEditable(@)])

C22_Witness ==
  /\ Returned
  /\ ~prev.set
  /\ file.format = "toml"
  /\ Len(file.doc.rows) = 2
  /\ file.doc.rows[1].editable = <<FALSE>>
  /\ Len(file.doc.rows[1].panels) = 2
  /\ file.doc.rows[1].panels[1].editable = <<FALSE>>
  /\ file.doc.rows[1].panels[1].legendShow = Absent
  /\ file.doc.rows[1].panels[1].nullPointMode = <<"null as zero">>
  /\ file.doc.rows[1].panels[2].nullPointMode = Absent
  /\ result.dashboard.Rows[1].Editable = TRUE
  /\ result.dashboard.Rows[1].Panels[1].Editable = TRUE
  /\ result.dashboard.Rows[1].Panels[1].Legend.Show = TRUE
  /\ result.dashboard.Rows[1].Panels[2].NullPointMode = "connected"

(***************************************************************************)
(* C23: after n >= 1 GroupByTag calls on a Target whose GroupBy started    *)
(* empty, GroupBy has length n + 1, its first element is the time/auto     *)
(* entry and elements 2..n+1 are the tag entries in call order, so the     *)
(* time entry is there once; on a GroupBy that started non-empty every     *)
(* call only appended its tag entry.                                       *)
(***************************************************************************)
C23_TimeEntryThenTags ==
  LET n == Len(grouped)
      tags == [k \in 1..n |->
                 [Type |-> "tag", Interval |-> "", Params |-> <<grouped[k]>>]]
      time == [Type |-> "time", Interval |-> "auto", Params |-> <<>>]
  IN /\ (start.GroupBy = <<>> /\ n >= 1) =>
          /\ Len(tgt.GroupBy) = n + 1
          /\ tgt.GroupBy[1] = time
          /\ \A k \in 1..n : tgt.GroupBy[k + 1] = tags[k]
          /\ Cardinality({ k \in 1..Len(tgt.GroupBy) :
                             tgt.GroupBy[k].Type = "time" }) = 1
     /\ start.GroupBy # <<>> => tgt.GroupBy = start.GroupBy \o tags
     /\ n = 0 => tgt.GroupBy = start.GroupBy

C23_Witness ==
  /\ start.GroupBy = <<>>
  /\ grouped = <<"host", "name", "host">>
  /\ Len(tgt.GroupBy) = 4
  /\ tgt.GroupBy[1].Type = "time"
  /\ tgt.GroupBy[4].Params = <<"host">>
  /\ Len(tgt.Tags) = 1

====
